---- MODULE Spec2Model ----
(***************************************************************************)
(* A model of the notebook POS_RNN-Copy1.ipynb: the hand-written SRN       *)
(* (mySRN.step / mySRN.forward), the RNN wrapper fastSRN, the accuracy     *)
(* bookkeeping (accuracy / measure_accuracy) and the batch collator        *)
(* pad_batch, as the notebook's cells define them.                         *)
(*                                                                         *)
(* Tensors are modelled by their contents: a 1-d tensor is a sequence of   *)
(* integers, a 2-d tensor a sequence of rows.  Python values that can be   *)
(* either a list or a tensor carry a tag.                                  *)
(***************************************************************************)
EXTENDS Integers, Sequences, FiniteSets, TLC

\* ------------------------------------------------------------------ bounds
\* longest input list X handed to mySRN.forward
MaxLen == 2
\* largest feature dimension of a 1-d tensor
MaxDim == 2
\* the count of lines print(ht) has written saturates here
MaxIter == 4

\* accuracy is called on 2-d tensors of at most this many entries
MaxCells == 3
\* most batches a dataloader yields
MaxBatches == 2

\* the padded sequence lengths of the dataloader's batches
BatchLens == {1, 2}
\* the class indices in predictions and targets
TagVals == {0, 1, 2}
\* the targets of a padded batch: the padding value 0 or a tag
PadOrTag == {0, 1}
\* the score vectors a network gives a position (two output classes)
ScoreRows == {<<1, 0>>, <<0, 1>>}

\* the values a supplied initial hidden state is filled with
HiddenFills == {0, 1}
\* hidden_activation: the nonlinearity strings torch.nn.RNN accepts
Nonlinearities == {"tanh", "relu"}
\* output_activation: a function on tensors (torch.tanh), or a Module class
\* (torch.nn.Tanh) that has to be instantiated before it can be applied
OutputActivations == {"function", "module_class"}

\* the tags of a target sequence (0 is kept for padding)
TagLabels == {1, 2}

\* the entries of input tensors and of initial hidden vectors
InputVals == {0, 1}
\* the entries the weight matrices of a constructed network are filled with
WeightVals == {1, 2}
\* the entries of the bias vectors
BiasVals == {0, 1}
\* the activations handed to the constructor of mySRN: a function on tensors
\* (torch.relu, hardtanh), or a Module class (torch.nn.Tanh, as the notebook's
\* own cell passes) that has to be instantiated before it can be applied
Activations == {"relu", "hardtanh", "module_class"}

\* ----------------------------------------------------------- tensor algebra
Vec(d) == [1..d -> InputVals]

RECURSIVE DotFrom(_, _, _)
DotFrom(u, v, i) == IF i > Len(u) THEN 0 ELSE u[i] * v[i] + DotFrom(u, v, i + 1)

\* the inner product of two vectors of the same length
Dot(u, v) == DotFrom(u, v, 1)

\* W x for a matrix given as its sequence of rows
MatVec(W, x) == [i \in 1..Len(W) |-> Dot(W[i], x)]

VecAdd(u, v) == [i \in 1..Len(u) |-> u[i] + v[i]]

\* a rows x cols matrix filled with w, a length-n vector filled with b
ConstMat(rows, cols, w) == [i \in 1..rows |-> [j \in 1..cols |-> w]]
ConstVec(n, b) == [i \in 1..n |-> b]

Relu(v) == IF v < 0 THEN 0 ELSE v
HardTanh(v) == IF v < -1 THEN -1 ELSE IF v > 1 THEN 1 ELSE v

\* an activation function applied elementwise
Activate(name, u) ==
    [i \in 1..Len(u) |-> IF name = "relu" THEN Relu(u[i]) ELSE HardTanh(u[i])]

\* ------------------------------------------------------------ Python values
NoVec == <<>>
PyList(items) == [tag |-> "list", items |-> items, val |-> NoVec]
PyTensor(v) == [tag |-> "tensor", items |-> <<>>, val |-> v]
\* a tensor of several dimensions with random entries, kept by its shape alone
PyRand(shape) == [tag |-> "rand", items |-> <<>>, val |-> shape]

\* the outcome of a call: a value, or the exception it raised
Returned(v) == [ok |-> TRUE, val |-> v, err |-> "none"]
Raised(e) == [ok |-> FALSE, val |-> <<>>, err |-> e]

\* a notebook-level name: unbound, bound to a 1-d tensor of known entries, or
\* bound to torch.rand(shape), a tensor kept by its shape alone
Unbound == [bound |-> FALSE, shape |-> <<>>, val |-> NoVec]
Bound(v) == [bound |-> TRUE, shape |-> <<Len(v)>>, val |-> v]
BoundRand(shape) == [bound |-> TRUE, shape |-> shape, val |-> NoVec]

\* the size of the last dimension of a tensor of the given shape
LastDim(shape) == shape[Len(shape)]
\* the shape with its last dimension replaced by n
WithLastDim(shape, n) == [i \in 1..Len(shape) |-> IF i = Len(shape) THEN n ELSE shape[i]]

\* ------------------------------------------------------------------- mySRN
\* mySRN.__init__: three Linear layers, x_to_h without a bias
mySRN(input_dim, hidden_dim, output_dim, hidden_activation, output_activation, wx, wh, bh, wy, by) ==
    [input_dim |-> input_dim, hidden_dim |-> hidden_dim, output_dim |-> output_dim,
     hidden_activation |-> hidden_activation,
     output_activation |-> output_activation,
     x_to_h |-> [W |-> ConstMat(hidden_dim, input_dim, wx),
                 b |-> ConstVec(hidden_dim, 0)],
     h_to_h |-> [W |-> ConstMat(hidden_dim, hidden_dim, wh),
                 b |-> ConstVec(hidden_dim, bh)],
     h_to_y |-> [W |-> ConstMat(output_dim, hidden_dim, wy),
                 b |-> ConstVec(output_dim, by)]]

\* torch.nn.Linear applied to a 1-d tensor: W v + b
Linear(layer, v) == VecAdd(MatVec(layer.W, v), layer.b)

\* the number of input features a Linear layer accepts
InFeatures(layer) == Len(layer.W[1])

\* mySRN.step(x, h) as written: the body reads the notebook-level name X, not
\* its parameter x; g is what that name is bound to when the call runs.
\* An activation that is a Module class is called with the tensor as the
\* argument of its constructor, which raises TypeError. A Linear layer acts
\* on the last dimension: from an X of shape (.., input_dim) the results have
\* the shapes (.., hidden_dim) and (.., output_dim), h being broadcast.
step(net, x, h, g) ==
    IF ~g.bound THEN Raised("NameError")
    ELSE IF LastDim(g.shape) # InFeatures(net.x_to_h) THEN Raised("RuntimeError")
    ELSE IF Len(h) # InFeatures(net.h_to_h) THEN Raised("RuntimeError")
    ELSE IF net.hidden_activation = "module_class" THEN Raised("TypeError")
    ELSE IF net.output_activation = "module_class" THEN Raised("TypeError")
    ELSE IF Len(g.shape) > 1
         THEN Returned(<<PyRand(WithLastDim(g.shape, Len(net.h_to_h.W))),
                         PyRand(WithLastDim(g.shape, Len(net.h_to_y.W)))>>)
    ELSE LET ht == Activate(net.hidden_activation,
                            VecAdd(Linear(net.x_to_h, g.val), Linear(net.h_to_h, h)))
             yt == Activate(net.output_activation, Linear(net.h_to_y, ht))
         IN Returned(<<PyTensor(ht), PyTensor(yt)>>)

\* ------------------------------------------------------------------- state
VARIABLES
    net,        \* the constructed mySRN
    gX,         \* the notebook-level name X
    pc,         \* "idle" | "loop" | "returned" | "raised" | "stepped"
    fX,         \* forward's parameter X (a list of tensors)
    fh,         \* forward's parameter h
    ht,         \* forward's local ht
    yt,         \* forward's local yt
    printed,    \* lines written by print(ht): one per loop iteration
    ret,        \* what forward returned or raised
    lastStep    \* the most recent call of step: its arguments and outcome

VARIABLES
    apc,        \* "idle" | "called" | "iter" | "returned" | "raised"
    accCall,    \* the most recent call of accuracy: its arguments and result
    loader,     \* measure_accuracy's dataloader: per batch, y and the network's output
    seen,       \* the indices of the batches the for loop has yielded, in order
    correct,    \* measure_accuracy's local correct
    total,      \* measure_accuracy's local total
    mret        \* what measure_accuracy returned or raised

VARIABLES
    fpc,        \* "idle" | "built" | "called" | "demo"
    netw,       \* the constructed fastSRN
    fXs,        \* the shape of the tensor X handed to fastSRN.forward
    fhArg,      \* the argument h of fastSRN.forward
    fh0,        \* the initial hidden state the wrapped RNN started from
    fout        \* what fastSRN.forward returned (a shape) or raised

VARIABLES
    ppc,        \* "idle" | "called"
    pbatch,     \* the list of (x_i, y_i) pairs handed to pad_batch
    pret        \* what pad_batch returned

VARIABLES
    dpc,        \* "idle" | "built" | "called"
    dsX,        \* the list X handed to UnevenLengthDataset(X, Y)
    dsY,        \* the list Y handed to UnevenLengthDataset(X, Y)
    dself,      \* the attributes the constructed UnevenLengthDataset holds
    dcall,      \* the most recent call of __len__ or __getitem__
    split       \* how the train/validation split cell ended

srnVars == <<net, gX, pc, fX, fh, ht, yt, printed, ret, lastStep>>
accVars == <<apc, accCall, loader, seen, correct, total, mret>>
fastVars == <<fpc, netw, fXs, fhArg, fh0, fout>>
padVars == <<ppc, pbatch, pret>>
dataVars == <<dpc, dsX, dsY, dself, dcall, split>>
vars == <<srnVars, accVars, fastVars, padVars, dataVars>>
notSRN == <<accVars, fastVars, padVars, dataVars>>
notAcc == <<srnVars, fastVars, padVars, dataVars>>
notFast == <<srnVars, accVars, padVars, dataVars>>
notPad == <<srnVars, accVars, fastVars, dataVars>>
notData == <<srnVars, accVars, fastVars, padVars>>

\* what a Python function gives back: None, or a pair
PyNoneValue == [tag |-> "None", items |-> <<>>]
PyPair(a, b) == [tag |-> "tuple", items |-> <<a, b>>]

\* no UnevenLengthDataset is constructed and the split cell has not been run
NoMethodCall == [method |-> "none", idx |-> 0, out |-> [ok |-> FALSE, val |-> <<>>, err |-> "none"]]
NoSplit == [out |-> [ok |-> FALSE, val |-> <<>>, err |-> "none"], asserts |-> 0, names |-> <<>>]
DataIdle ==
    /\ dpc = "idle"
    /\ dsX = <<>>
    /\ dsY = <<>>
    /\ dself = {}
    /\ dcall = NoMethodCall
    /\ split = NoSplit

\* an optional tensor argument: None, or a tensor of a shape filled with a value
PyNone == [given |-> FALSE, shape |-> <<>>, fill |-> 0]
Full(shape, v) == [given |-> TRUE, shape |-> shape, fill |-> v]

\* no fastSRN is constructed and none is running
FastIdle ==
    /\ fpc = "idle"
    /\ netw = <<>>
    /\ fXs = <<>>
    /\ fhArg = PyNone
    /\ fh0 = PyNone
    /\ fout = Raised("none")

\* pad_batch is not running
PadIdle ==
    /\ ppc = "idle"
    /\ pbatch = <<>>
    /\ pret = Raised("none")

\* measure_accuracy and accuracy are not running
NoAccCall == [pred |-> <<>>, truth |-> <<>>, ignore_idx |-> 0, out |-> <<0, 0>>]
AccIdle ==
    /\ apc = "idle"
    /\ accCall = NoAccCall
    /\ loader = <<>>
    /\ seen = <<>>
    /\ correct = 0
    /\ total = 0
    /\ mret = Raised("none")

NoCall == [kind |-> "none", x |-> <<>>, h |-> NoVec, g |-> Unbound,
           prev |-> PyList(<<>>), n |-> 0, out |-> Raised("none")]

Networks ==
    {mySRN(d, 1, 1, ha, oa, wx, 1, bh, 1, 0) :
        d \in 1..MaxDim, ha \in Activations, oa \in {"relu", "module_class"},
        wx \in WeightVals, bh \in BiasVals}

InputLists(d) == UNION {[1..n -> Vec(d)] : n \in 0..MaxLen}

InitSRN ==
    /\ AccIdle /\ FastIdle /\ PadIdle /\ DataIdle
    /\ net \in Networks
    /\ gX = Unbound
    /\ pc = "idle"
    /\ fX = <<>>
    /\ fh = NoVec
    /\ ht = PyList(<<>>)
    /\ yt = PyList(<<>>)
    /\ printed = 0
    /\ ret = Raised("none")
    /\ lastStep = NoCall

\* the shapes (seq_len, batch_size, features) of the tensors the notebook
\* binds X to
XShapes == (1..MaxLen) \X (1..MaxDim) \X (1..MaxDim)

\* a cell binds the notebook-level X: to a tensor of three dimensions
\* (X = torch.rand(10, 32, 16), X = pad_sequence([x_1, x_2, x_3])), or to a
\* tensor of one dimension
BindX ==
    /\ UNCHANGED notSRN
    /\ pc = "idle"
    /\ \/ \E d \in 1..MaxDim : \E v \in Vec(d) : gX' = Bound(v)
       \/ \E shape \in XShapes : gX' = BoundRand(shape)
    /\ UNCHANGED <<net, pc, fX, fh, ht, yt, printed, ret, lastStep>>

\* the cell "del mySRN, rnn, X, h"
DelX ==
    /\ UNCHANGED notSRN
    /\ pc = "idle"
    /\ gX.bound
    /\ gX' = Unbound
    /\ UNCHANGED <<net, pc, fX, fh, ht, yt, printed, ret, lastStep>>

\* a direct call net.step(x, h)
StepCall ==
    /\ UNCHANGED notSRN
    /\ pc = "idle"
    /\ \E x \in Vec(net.input_dim), h \in Vec(net.hidden_dim) :
          /\ lastStep' = [kind |-> "direct", x |-> x, h |-> h, g |-> gX,
                          prev |-> PyList(<<>>), n |-> 1,
                          out |-> step(net, x, h, gX)]
          /\ ret' = step(net, x, h, gX)
    /\ pc' = "stepped"
    /\ UNCHANGED <<net, gX, fX, fh, ht, yt, printed>>

\* forward(X, h) is entered: ht = [], yt = []
ForwardCall ==
    /\ UNCHANGED notSRN
    /\ pc = "idle"
    /\ \E X \in InputLists(net.input_dim), h \in Vec(net.hidden_dim) :
          /\ fX' = X
          /\ fh' = h
    /\ ht' = PyList(<<>>)
    /\ yt' = PyList(<<>>)
    /\ printed' = 0
    /\ pc' = "loop"
    /\ ret' = Raised("none")
    /\ lastStep' = NoCall
    /\ UNCHANGED <<net, gX>>

\* one pass of "while len(X) != 0": ht, yt = self.step(X, h); print(ht)
ForwardIter ==
    /\ UNCHANGED notSRN
    /\ pc = "loop"
    /\ Len(fX) # 0
    /\ LET out == step(net, fX, fh, gX) IN
          /\ lastStep' = [kind |-> "forward", x |-> fX, h |-> fh, g |-> gX,
                          prev |-> ht,
                          n |-> IF lastStep.n < MaxIter THEN lastStep.n + 1
                                ELSE MaxIter,
                          out |-> out]
          /\ IF out.ok
             THEN /\ ht' = out.val[1]
                  /\ yt' = out.val[2]
                  /\ printed' = IF printed < MaxIter THEN printed + 1 ELSE MaxIter
                  /\ UNCHANGED <<pc, ret>>
             ELSE /\ pc' = "raised"
                  /\ ret' = out
                  /\ UNCHANGED <<ht, yt, printed>>
    /\ UNCHANGED <<net, gX, fX, fh>>

\* the loop condition fails: return yt
ForwardExit ==
    /\ UNCHANGED notSRN
    /\ pc = "loop"
    /\ Len(fX) = 0
    /\ pc' = "returned"
    /\ ret' = Returned(yt)
    /\ UNCHANGED <<net, gX, fX, fh, ht, yt, printed, lastStep>>

\* the caller has its result (or its exception): the call's frame is gone and
\* the kernel is idle again
CallDone ==
    /\ UNCHANGED notSRN
    /\ pc \in {"returned", "raised", "stepped"}
    /\ pc' = "idle"
    /\ fX' = <<>>
    /\ fh' = NoVec
    /\ ht' = PyList(<<>>)
    /\ yt' = PyList(<<>>)
    /\ printed' = 0
    /\ ret' = Raised("none")
    /\ lastStep' = NoCall
    /\ UNCHANGED <<net, gX>>

NextSRN == BindX \/ DelX \/ StepCall \/ ForwardCall \/ ForwardIter
              \/ ForwardExit \/ CallDone

Spec == InitSRN /\ [][NextSRN]_vars

\* the interpreter runs a started call on: the loop body and the return are
\* taken whenever they can be
FairSpec == Spec /\ WF_vars(ForwardIter) /\ WF_vars(ForwardExit)

\* ------------------------------------------------- the SRN as it is specified
\* h_t = theta_h(W_h x_t + U_h h_{t-1} + b_h), y_t = theta_y(W_y h_t + b_y)
SRNHidden(n, x, h) ==
    Activate(n.hidden_activation, VecAdd(Linear(n.x_to_h, x), Linear(n.h_to_h, h)))
SRNOutput(n, h) == Activate(n.output_activation, Linear(n.h_to_y, h))

\* the outputs y_0 .. y_{len(X)-1} of the recurrence started from h
RECURSIVE SRNOutputsFrom(_, _, _, _)
SRNOutputsFrom(n, X, h, t) ==
    IF t > Len(X) THEN <<>>
    ELSE <<SRNOutput(n, SRNHidden(n, X[t], h))>>
            \o SRNOutputsFrom(n, X, SRNHidden(n, X[t], h), t + 1)

\* C1: forward(X, h), once entered, returns the list of the outputs y_t of the
\* recurrence over X in input order: as long as X, one output per input.
C1_ForwardReturnsOutputs ==
    [](pc = "loop"
        => <>(/\ pc = "returned"
              /\ ret = Returned(PyList(SRNOutputsFrom(net, fX, fh, 1)))))

\* C2: the loop of forward runs once per element of X and is then left: no run
\* makes more passes than X has elements, and a return follows exactly len(X).
C2_LoopRunsLenTimes ==
    /\ pc = "loop" => printed <= Len(fX)
    /\ pc = "returned" => printed = Len(fX)

\* C3: within forward, the first call of step gets the initial hidden vector
\* and every later call gets the hidden state the call before it returned.
C3_HiddenStateThreaded ==
    lastStep.kind = "forward" =>
        IF lastStep.n = 1 THEN lastStep.h = fh
        ELSE /\ lastStep.prev.tag = "tensor"
             /\ lastStep.h = lastStep.prev.val

\* C4: step(x, h) returns (h_t, y_t) as the SRN equations give them from its
\* arguments x and h and the three layers, whatever the notebook-level X is.
C4_StepIsFunctionOfArguments ==
    lastStep.kind = "direct" =>
        lastStep.out = Returned(<<PyTensor(SRNHidden(net, lastStep.x, lastStep.h)),
                                  PyTensor(SRNOutput(net, SRNHidden(net, lastStep.x, lastStep.h)))>>)

\* ------------------------------------------------------- 2-d tensor algebra
\* tensor.size() of a 2-d tensor given as its sequence of rows
Size2(M) == <<Len(M), Len(M[1])>>

\* torch.ones(size)
Ones(size) == [i \in 1..size[1] |-> [j \in 1..size[2] |-> 1]]

\* the boolean masks  P != T  and  T == k
NeMask(P, T) == [i \in 1..Len(P) |-> [j \in 1..Len(P[i]) |-> P[i][j] # T[i][j]]]
EqMask(T, k) == [i \in 1..Len(T) |-> [j \in 1..Len(T[i]) |-> T[i][j] = k]]

\* M[mask] = v
MaskedAssign(M, mask, v) ==
    [i \in 1..Len(M) |-> [j \in 1..Len(M[i]) |-> IF mask[i][j] THEN v ELSE M[i][j]]]

RECURSIVE SumFrom(_, _)
SumFrom(u, i) == IF i > Len(u) THEN 0 ELSE u[i] + SumFrom(u, i + 1)

RECURSIVE SumRowsFrom(_, _)
SumRowsFrom(M, i) == IF i > Len(M) THEN 0 ELSE SumFrom(M[i], 1) + SumRowsFrom(M, i + 1)

\* M.sum().item()
SumAll(M) == SumRowsFrom(M, 1)

\* len(T[mask]): the number of selected entries
MaskedLen(mask) ==
    SumAll([i \in 1..Len(mask) |-> [j \in 1..Len(mask[i]) |-> IF mask[i][j] THEN 1 ELSE 0]])

RECURSIVE ArgmaxFrom(_, _, _)
ArgmaxFrom(u, i, best) ==
    IF i > Len(u) THEN best
    ELSE ArgmaxFrom(u, i + 1, IF u[i] > u[best] THEN i ELSE best)

\* argmax of a score vector: the 0-based index of its first maximal entry
Argmax(u) == ArgmaxFrom(u, 2, 1) - 1

\* S.argmax(dim=-1) of a 3-d tensor of scores
ArgmaxLast(S) == [i \in 1..Len(S) |-> [j \in 1..Len(S[i]) |-> Argmax(S[i][j])]]

\* ---------------------------------------------------------------- accuracy
\* accuracy without the line  correct_words[truth == ignore_idx] = 1
accuracy_unmasked(predictions, truth, ignore_idx) ==
    LET ones == Ones(Size2(predictions))
        correct_words == MaskedAssign(ones, NeMask(predictions, truth), 0)
        num_correct_words == SumAll(correct_words)
        num_masked_words == MaskedLen(EqMask(truth, ignore_idx))
    IN <<Size2(predictions)[1] * Size2(predictions)[2] - num_masked_words,
         num_correct_words - num_masked_words>>

\* accuracy(predictions, truth, ignore_idx) -> (total, correct)
accuracy(predictions, truth, ignore_idx) ==
    LET ones == Ones(Size2(predictions))
        wrong_zeroed == MaskedAssign(ones, NeMask(predictions, truth), 0)
        correct_words == MaskedAssign(wrong_zeroed, EqMask(truth, ignore_idx), 1)
        num_correct_words == SumAll(correct_words)
        num_masked_words == MaskedLen(EqMask(truth, ignore_idx))
    IN <<Size2(predictions)[1] * Size2(predictions)[2] - num_masked_words,
         num_correct_words - num_masked_words>>

RECURSIVE Gcd(_, _)
Gcd(a, b) == IF b = 0 THEN a ELSE Gcd(b, a % b)

\* the quotient n / d (d # 0) as a fraction in lowest terms
Quotient(n, d) == <<n \div Gcd(n, d), d \div Gcd(n, d)>>

\* the loop body with  correct = local_correct  for  correct += local_correct
measure_batch_overwrite(c, t, batch) ==
    LET local == accuracy(ArgmaxLast(batch.pred), batch.y, 0)
    IN <<local[2], t + local[1]>>

\* one pass of measure_accuracy's loop over a batch: the new (correct, total)
measure_batch(c, t, batch) ==
    LET local == accuracy(ArgmaxLast(batch.pred), batch.y, 0)
    IN <<c + local[2], t + local[1]>>

\* measure_accuracy's return statement
measure_return(c, t) ==
    IF t = 0 THEN Raised("ZeroDivisionError") ELSE Returned(Quotient(c, t))

\* the shapes (rows, cols) of the 2-d tensors accuracy is called on
AccShapes == {sh \in (1..MaxCells) \X (1..MaxCells) : sh[1] * sh[2] <= MaxCells}
Tensor2(sh, vals) == [1..sh[1] -> [1..sh[2] -> vals]]

\* the batches a dataloader yields: targets of shape (seq_len, 1) and the
\* network's scores for them, one score vector per position
Batches ==
    UNION {[y : Tensor2(<<n, 1>>, PadOrTag), pred : Tensor2(<<n, 1>>, ScoreRows)] :
            n \in BatchLens}
Loaders == UNION {[1..n -> Batches] : n \in 0..MaxBatches}

\* the notebook's SRN cells are not running
SRNIdle ==
    /\ net = <<>>
    /\ gX = Unbound
    /\ pc = "idle"
    /\ fX = <<>>
    /\ fh = NoVec
    /\ ht = PyList(<<>>)
    /\ yt = PyList(<<>>)
    /\ printed = 0
    /\ ret = Raised("none")
    /\ lastStep = NoCall

InitAccuracy == SRNIdle /\ AccIdle /\ FastIdle /\ PadIdle /\ DataIdle

\* a call accuracy(predictions, truth, ignore_idx) on tensors of one shape
AccuracyCall ==
    /\ UNCHANGED notAcc
    /\ apc = "idle"
    /\ \E sh \in AccShapes :
         \E P \in Tensor2(sh, TagVals), T \in Tensor2(sh, TagVals), k \in TagVals :
            accCall' = [pred |-> P, truth |-> T, ignore_idx |-> k,
                        out |-> accuracy(P, T, k)]
    /\ apc' = "called"
    /\ UNCHANGED <<loader, seen, correct, total, mret>>

\* measure_accuracy(network, dataloader, device) is entered: correct = total = 0
MeasureCall ==
    /\ UNCHANGED notAcc
    /\ apc = "idle"
    /\ loader' \in Loaders
    /\ seen' = <<>>
    /\ correct' = 0
    /\ total' = 0
    /\ apc' = "iter"
    /\ UNCHANGED <<accCall, mret>>

\* the for loop yields its next batch: the network is run on it and the counts
\* of accuracy(pred.argmax(dim=-1), y_batch, ignore_idx=0) are added
MeasureIter ==
    /\ UNCHANGED notAcc
    /\ apc = "iter"
    /\ Len(seen) < Len(loader)
    /\ LET i == Len(seen) + 1
           batch == loader[i]
       IN /\ accCall' = [pred |-> ArgmaxLast(batch.pred), truth |-> batch.y,
                         ignore_idx |-> 0,
                         out |-> accuracy(ArgmaxLast(batch.pred), batch.y, 0)]
          /\ correct' = measure_batch(correct, total, batch)[1]
          /\ total' = measure_batch(correct, total, batch)[2]
          /\ seen' = Append(seen, i)
    /\ UNCHANGED <<apc, loader, mret>>

\* the dataloader is exhausted: return correct/total
MeasureReturn ==
    /\ UNCHANGED notAcc
    /\ apc = "iter"
    /\ Len(seen) = Len(loader)
    /\ mret' = measure_return(correct, total)
    /\ apc' = IF total = 0 THEN "raised" ELSE "returned"
    /\ UNCHANGED <<accCall, loader, seen, correct, total>>

\* the caller has its result: the call's frame is gone
AccDone ==
    /\ UNCHANGED notAcc
    /\ apc \in {"called", "returned", "raised"}
    /\ apc' = "idle"
    /\ accCall' = NoAccCall
    /\ loader' = <<>>
    /\ seen' = <<>>
    /\ correct' = 0
    /\ total' = 0
    /\ mret' = Raised("none")

NextAccuracy == AccuracyCall \/ MeasureCall \/ MeasureIter \/ MeasureReturn \/ AccDone

SpecAccuracy == InitAccuracy /\ [][NextAccuracy]_vars

\* the positions of a 2-d tensor
Positions(T) == {p \in (1..Len(T)) \X (1..Len(T[1])) : TRUE}

\* the positions accuracy counts, and those among them predicted right
Counted(T, k) == {p \in Positions(T) : T[p[1]][p[2]] # k}
CountedRight(P, T, k) == {p \in Counted(T, k) : P[p[1]][p[2]] = T[p[1]][p[2]]}

\* C5: accuracy(predictions, truth, ignore_idx) returns (total, correct): the
\* number of positions whose truth is not ignore_idx, and the number of those
\* at which the prediction equals the truth.
C5_AccuracyCounts ==
    accCall # NoAccCall =>
        accCall.out = <<Cardinality(Counted(accCall.truth, accCall.ignore_idx)),
                        Cardinality(CountedRight(accCall.pred, accCall.truth,
                                                 accCall.ignore_idx))>>

\* C5 happens: a call whose tensors hold an ignored position with a differing
\* prediction, a counted position predicted right and one predicted wrong
C5_Witness ==
    /\ apc = "called"
    /\ \E p \in Positions(accCall.truth) :
          /\ accCall.truth[p[1]][p[2]] = accCall.ignore_idx
          /\ accCall.pred[p[1]][p[2]] # accCall.ignore_idx
    /\ accCall.out = <<2, 1>>

\* the tokens of the whole dataset: (batch, row, column) of every target that
\* is not the padding value 0, and those the network's argmax gets right
DatasetTokens ==
    {q \in UNION {{<<b, p[1], p[2]>> : p \in Positions(loader[b].y)} :
                    b \in 1..Len(loader)} :
        loader[q[1]].y[q[2]][q[3]] # 0}
DatasetRight ==
    {q \in DatasetTokens :
        Argmax(loader[q[1]].pred[q[2]][q[3]]) = loader[q[1]].y[q[2]][q[3]]}

\* C6: measure_accuracy has taken every batch of the dataloader once, in order,
\* when it ends, and what it returns is (tokens predicted right in the whole
\* dataset) / (tokens in the whole dataset); it raises only when there is no token.
C6_MeasureIsTokenAccuracy ==
    /\ apc \in {"returned", "raised"} => seen = [i \in 1..Len(loader) |-> i]
    /\ apc = "returned" =>
          /\ mret.ok
          /\ Cardinality(DatasetTokens) # 0
          /\ mret.val[1] * Cardinality(DatasetTokens)
                = Cardinality(DatasetRight) * mret.val[2]
    /\ apc = "raised" => Cardinality(DatasetTokens) = 0

\* C6 happens: two batches, one token predicted right in one and two tokens
\* predicted wrong in the other: 1/3 of the tokens, where the mean of the
\* per-batch accuracies is 1/2
C6_Witness ==
    /\ apc = "returned"
    /\ Len(loader) = 2
    /\ seen = <<1, 2>>
    /\ mret = Returned(<<1, 3>>)

\* ----------------------------------------------------------------- fastSRN
\* fastSRN.__init__: the arguments are stored; no layer is built here
fastSRN(input_dim, hidden_dim, output_dim, hidden_activation, output_activation) ==
    [input_size |-> input_dim, hidden_size |-> hidden_dim, output_size |-> output_dim,
     hidden_activation |-> hidden_activation,
     output_activation |-> output_activation]

\* torch.nn.RNN(input_size, hidden_size)(X, hx) on a 3-d X of shape
\* (seq_len, batch, features): hx defaults to zeros; the hidden states have
\* shape (seq_len, batch, hidden_size)
RNNForward(input_size, hidden_size, Xs, hx) ==
    IF Xs[3] # input_size THEN [out |-> Raised("RuntimeError"), h0 |-> PyNone]
    ELSE IF hx.given /\ hx.shape # <<1, Xs[2], hidden_size>>
    THEN [out |-> Raised("RuntimeError"), h0 |-> PyNone]
    ELSE [out |-> Returned(<<Xs[1], Xs[2], hidden_size>>),
          h0 |-> IF hx.given THEN hx ELSE Full(<<1, Xs[2], hidden_size>>, 0)]

\* the shape torch.nn.Linear(in_features, out_features) gives an input of shape s
LinearShape(in_features, out_features, s) ==
    IF s[Len(s)] # in_features THEN Raised("RuntimeError")
    ELSE Returned([s EXCEPT ![Len(s)] = out_features])

\* self.output_activation(t): a function maps the tensor elementwise; a Module
\* class is called as its constructor, which takes no tensor
ApplyOutputActivation(output_activation, s) ==
    IF output_activation = "function" THEN Returned(s) ELSE Raised("TypeError")

\* forward without the h_to_y layer: the activation of the hidden states
fastSRN_forward_no_h_to_y(n, Xs, h) ==
    LET rnn == RNNForward(n.input_size, n.hidden_size, Xs, PyNone)
    IN IF ~rnn.out.ok THEN rnn
       ELSE [out |-> ApplyOutputActivation(n.output_activation, rnn.out.val),
             h0 |-> rnn.h0]

\* fastSRN.forward(X, h): a new RNN and a new Linear layer are built on every
\* call; myrnn(X) is called without h
fastSRN_forward(n, Xs, h) ==
    LET rnn == RNNForward(n.input_size, n.hidden_size, Xs, PyNone)
    IN IF ~rnn.out.ok THEN rnn
       ELSE LET lin == LinearShape(n.hidden_size, n.output_size, rnn.out.val)
            IN IF ~lin.ok THEN [out |-> lin, h0 |-> rnn.h0]
               ELSE [out |-> ApplyOutputActivation(n.output_activation, lin.val),
                     h0 |-> rnn.h0]

\* the demonstration cell: X = torch.rand(10, 16, 32)
DemoX == <<10, 16, 32>>
\* the demonstration cell: fastSRN(input_dim=32, hidden_dim=42, output_dim=2,
\* hidden_activation='tanh', output_activation=torch.nn.Tanh, device='cpu')
DemoNetw == fastSRN(32, 42, 2, "tanh", "module_class")

InitFast == SRNIdle /\ AccIdle /\ FastIdle /\ PadIdle /\ DataIdle

\* a cell constructs netw = fastSRN(...)
FastConstruct ==
    /\ UNCHANGED notFast
    /\ fpc \in {"idle", "built"}
    /\ \E i \in 1..MaxDim, hd \in 1..MaxDim, o \in 1..MaxDim,
          ha \in Nonlinearities, oa \in OutputActivations :
            netw' = fastSRN(i, hd, o, ha, oa)
    /\ fpc' = "built"
    /\ UNCHANGED <<fXs, fhArg, fh0, fout>>

\* a call netw(X) or netw(X, h), h of the shape the RNN expects
FastForward ==
    /\ UNCHANGED notFast
    /\ fpc = "built"
    /\ \E Xs \in (1..MaxLen) \X (1..MaxDim) \X (1..MaxDim) :
         \E h \in {PyNone} \cup {Full(<<1, Xs[2], netw.hidden_size>>, v) : v \in HiddenFills} :
            /\ fXs' = Xs
            /\ fhArg' = h
            /\ fout' = fastSRN_forward(netw, Xs, h).out
            /\ fh0' = fastSRN_forward(netw, Xs, h).h0
    /\ fpc' = "called"
    /\ UNCHANGED netw

\* the demonstration cell is run: X, netw, output = netw(X); the cell's first
\* statement binds the notebook-level name X
FastDemo ==
    /\ UNCHANGED <<accVars, padVars, dataVars>>
    /\ UNCHANGED <<net, pc, fX, fh, ht, yt, printed, ret, lastStep>>
    /\ fpc \in {"idle", "built"}
    /\ gX' = BoundRand(DemoX)
    /\ netw' = DemoNetw
    /\ fXs' = DemoX
    /\ fhArg' = PyNone
    /\ fout' = fastSRN_forward(DemoNetw, DemoX, PyNone).out
    /\ fh0' = fastSRN_forward(DemoNetw, DemoX, PyNone).h0
    /\ fpc' = "demo"

\* the cell has ended: the frame of forward is gone; the names netw and X
\* stay bound
FastDone ==
    /\ UNCHANGED notFast
    /\ fpc \in {"called", "demo"}
    /\ fpc' = "built"
    /\ UNCHANGED netw
    /\ fXs' = <<>>
    /\ fhArg' = PyNone
    /\ fh0' = PyNone
    /\ fout' = Raised("none")

NextFast == FastConstruct \/ FastForward \/ FastDemo \/ FastDone

SpecFast == InitFast /\ [][NextFast]_vars

\* C7: fastSRN.forward(X), X of shape (seq_len, batch_size, input_dim) with the
\* input_dim given at construction and the output activation a function on
\* tensors, returns a tensor of shape (seq_len, batch_size, output_dim).
C7_ForwardShape ==
    (/\ fpc = "called"
     /\ netw.output_activation = "function"
     /\ fXs[3] = netw.input_size)
        => fout = Returned(<<fXs[1], fXs[2], netw.output_size>>)

\* C7 happens: a call on a well-shaped X where the three dimensions of the
\* network differ, so that the output shape is neither X's nor the hidden one
C7_Witness ==
    /\ fpc = "called"
    /\ netw.output_activation = "function"
    /\ fXs = <<2, 2, 1>>
    /\ netw.input_size = 1 /\ netw.hidden_size = 2 /\ netw.output_size = 1
    /\ fout = Returned(<<2, 2, 1>>)

\* C8: the demonstration cell builds X for 32 sequences of length 10 with 16
\* features, a fastSRN of that input dimension with 42 hidden and 2 output
\* dimensions, and netw(X) ends without an error with an output of shape
\* (10, 32, 2).
C8_DemoRuns ==
    fpc = "demo" =>
        /\ fXs = <<10, 32, 16>>
        /\ netw.input_size = fXs[3]
        /\ netw.hidden_size = 42
        /\ netw.output_size = 2
        /\ fout = Returned(<<10, 32, 2>>)

\* C9: the RNN inside fastSRN.forward(X, h) starts from the supplied h when h
\* is not None and from zeros when it is None.
C9_UsesSuppliedHidden ==
    (fpc = "called" /\ fh0.given) =>
        fh0 = IF fhArg.given THEN fhArg ELSE Full(<<1, fXs[2], netw.hidden_size>>, 0)

\* --------------------------------------------------------------- pad_batch
\* pad_batch(batch): the body is the expression statement NotImplemented, so
\* the function falls off its end
pad_batch(batch) == Returned(PyNoneValue)

\* the (x_i, y_i) pairs of a dataset: x_i of shape (len_i, d), y_i of shape (len_i)
Samples(d) ==
    UNION {[x : [1..n -> Vec(d)], y : [1..n -> TagLabels]] : n \in 1..MaxLen}
PadBatches == UNION {[1..n -> Samples(d)] : n \in 1..MaxDim, d \in 1..MaxDim}

InitPad == SRNIdle /\ AccIdle /\ FastIdle /\ PadIdle /\ DataIdle

\* the DataLoader hands pad_batch a non-empty list of samples
PadCall ==
    /\ UNCHANGED notPad
    /\ ppc = "idle"
    /\ \E batch \in PadBatches :
          /\ pbatch' = batch
          /\ pret' = pad_batch(batch)
    /\ ppc' = "called"

\* the DataLoader has its batch
PadDone ==
    /\ UNCHANGED notPad
    /\ ppc = "called"
    /\ ppc' = "idle"
    /\ pbatch' = <<>>
    /\ pret' = Raised("none")

NextPad == PadCall \/ PadDone

SpecPad == InitPad /\ [][NextPad]_vars

\* the longest sequence of a batch
RECURSIVE MaxLenFrom(_, _)
MaxLenFrom(batch, i) ==
    IF i > Len(batch) THEN 0
    ELSE LET rest == MaxLenFrom(batch, i + 1)
         IN IF Len(batch[i].y) > rest THEN Len(batch[i].y) ELSE rest

\* the paddings of a batch: X of shape (max len, N, d) and Y of shape
\* (max len, N), column i holding sample i and then the padding value 0
PaddedX(batch) ==
    [t \in 1..MaxLenFrom(batch, 1) |->
        [i \in 1..Len(batch) |->
            IF t <= Len(batch[i].x) THEN batch[i].x[t]
            ELSE [k \in 1..Len(batch[i].x[1]) |-> 0]]]
PaddedY(batch) ==
    [t \in 1..MaxLenFrom(batch, 1) |->
        [i \in 1..Len(batch) |-> IF t <= Len(batch[i].y) THEN batch[i].y[t] ELSE 0]]

\* C10: pad_batch(batch) returns the pair (X, Y) of the paddings of the x_i and
\* of the y_i of the batch.
C10_PadBatchPads ==
    ppc = "called" => pret = Returned(PyPair(PaddedX(pbatch), PaddedY(pbatch)))

\* ------------------------------------------------------ UnevenLengthDataset
\* UnevenLengthDataset.__init__(X, Y): the body is the expression statement
\* NotImplemented, so no attribute is set on the instance
UnevenLengthDataset(X, Y) == {}

\* UnevenLengthDataset.__len__(): the body is NotImplemented; the method falls
\* off its end
dataset_len(self) == Returned(PyNoneValue)

\* UnevenLengthDataset.__getitem__(idx): the body is NotImplemented
dataset_getitem(self, idx) == Returned(PyNoneValue)

\* the lists X and Y of a dataset: as many inputs as targets, sample i of
\* length len_i on both sides
DatasetSizes == {0, 1, 2}
Datasets == UNION {[1..n -> Samples(1)] : n \in DatasetSizes}

InitData == SRNIdle /\ AccIdle /\ FastIdle /\ PadIdle /\ DataIdle

\* a cell constructs UnevenLengthDataset(X, Y)
DatasetConstruct ==
    /\ UNCHANGED notData
    /\ dpc = "idle"
    /\ \E ds \in Datasets :
          /\ dsX' = [i \in 1..Len(ds) |-> ds[i].x]
          /\ dsY' = [i \in 1..Len(ds) |-> ds[i].y]
          /\ dself' = UnevenLengthDataset([i \in 1..Len(ds) |-> ds[i].x],
                                          [i \in 1..Len(ds) |-> ds[i].y])
    /\ dpc' = "built"
    /\ UNCHANGED <<dcall, split>>

\* a call dataset.__len__()
DatasetLen ==
    /\ UNCHANGED notData
    /\ dpc = "built"
    /\ dcall' = [method |-> "__len__", idx |-> 0, out |-> dataset_len(dself)]
    /\ dpc' = "called"
    /\ UNCHANGED <<dsX, dsY, dself, split>>

\* a call dataset.__getitem__(idx), 0 <= idx < len(X)
DatasetGetItem ==
    /\ UNCHANGED notData
    /\ dpc = "built"
    /\ \E idx \in 0..(Len(dsX) - 1) :
          dcall' = [method |-> "__getitem__", idx |-> idx,
                    out |-> dataset_getitem(dself, idx)]
    /\ dpc' = "called"
    /\ UNCHANGED <<dsX, dsY, dself, split>>

\* the caller has its result; the dataset stays
DatasetCallDone ==
    /\ UNCHANGED notData
    /\ dpc = "called"
    /\ dcall' = NoMethodCall
    /\ dpc' = "built"
    /\ UNCHANGED <<dsX, dsY, dself, split>>

\* the dataset is dropped
DatasetDrop ==
    /\ UNCHANGED notData
    /\ dpc = "built"
    /\ dpc' = "idle"
    /\ dsX' = <<>>
    /\ dsY' = <<>>
    /\ dself' = {}
    /\ UNCHANGED <<dcall, split>>

\* C11: __len__() returns len(X), and __getitem__(idx) returns the pair
\* (X[idx], Y[idx]) for every 0 <= idx < len(X).
C11_DatasetLenAndGetItem ==
    /\ (dpc = "called" /\ dcall.method = "__len__") =>
          /\ dcall.out.ok
          /\ dcall.out.val.tag = "int"
          /\ dcall.out.val.items = <<Len(dsX)>>
    /\ (dpc = "called" /\ dcall.method = "__getitem__") =>
          /\ dcall.out.ok
          /\ dcall.out.val.tag = "tuple"
          /\ dcall.out.val.items = <<dsX[dcall.idx + 1], dsY[dcall.idx + 1]>>

\* ------------------------------------------------ train/validation split
\* the eight targets of the split cell's assignment, in order
SplitTargets == <<"sentences_train", "sentences_val", "postags_train", "postags_val", "X_train", "X_val", "Y_train", "Y_val">>

\* the right-hand side of the split cell's assignment
NotImplementedValue == [tag |-> "NotImplemented", items |-> <<>>]

\* Python's unpacking of a value into n targets: a list or a tuple gives its
\* items and a 1-d tensor its entries; a value that is not iterable raises
\* TypeError, an iterable of another length than n raises ValueError
Unpack(rhs, n) ==
    IF rhs.tag \notin {"list", "tuple", "tensor"} THEN Raised("TypeError")
    ELSE LET elems == IF rhs.tag = "tensor" THEN rhs.val ELSE rhs.items IN
         IF Len(elems) # n THEN Raised("ValueError") ELSE Returned(elems)

\* the split cell from top to bottom: the assignment, then the two asserts;
\* names maps the position of a target to the list bound to it
split_cell ==
    LET u == Unpack(NotImplementedValue, Len(SplitTargets)) IN
    IF ~u.ok THEN [out |-> u, asserts |-> 0, names |-> <<>>]
    ELSE IF ~(Len(u.val[5]) = Len(u.val[7]) /\ Len(u.val[7]) = Len(u.val[1]))
         THEN [out |-> Raised("AssertionError"), asserts |-> 1, names |-> u.val]
    ELSE IF ~(Len(u.val[6]) = Len(u.val[8]) /\ Len(u.val[8]) = Len(u.val[2]))
         THEN [out |-> Raised("AssertionError"), asserts |-> 2, names |-> u.val]
    ELSE [out |-> Returned(PyNoneValue), asserts |-> 2, names |-> u.val]

\* the split cell is run
SplitCell ==
    /\ UNCHANGED notData
    /\ dpc \in {"idle", "built"}
    /\ split = NoSplit
    /\ split' = split_cell
    /\ UNCHANGED <<dpc, dsX, dsY, dself, dcall>>

\* the cell's output is read and cleared
SplitDone ==
    /\ UNCHANGED notData
    /\ split # NoSplit
    /\ dpc \in {"idle", "built"}
    /\ split' = NoSplit
    /\ UNCHANGED <<dpc, dsX, dsY, dself, dcall>>

NextData ==
    \/ DatasetConstruct
    \/ DatasetLen
    \/ DatasetGetItem
    \/ DatasetCallDone
    \/ DatasetDrop
    \/ SplitCell
    \/ SplitDone

SpecData == InitData /\ [][NextData]_vars

\* C12: once the split cell has run, both of its assertions were reached and
\* hold: len(X_train) = len(Y_train) = len(sentences_train) and
\* len(X_val) = len(Y_val) = len(sentences_val).
C12_SplitAssertionsHold ==
    split # NoSplit =>
        /\ split.out.ok
        /\ split.asserts = 2
        /\ Len(split.names[5]) = Len(split.names[7])
        /\ Len(split.names[7]) = Len(split.names[1])
        /\ Len(split.names[6]) = Len(split.names[8])
        /\ Len(split.names[8]) = Len(split.names[2])

====
